---- MODULE Spec2Model ----
(***************************************************************************)
(* Heston Monte Carlo pricing engine: src/src/simulation.py                *)
(*   heston_model_sim  - one simulation call (draw, simulate, payoff,      *)
(*                       discount)                                         *)
(*   calculate_greeks  - finite-difference Greeks from resimulated prices  *)
(* driven the way src/tests/test_simulation.py drives it: one params dict, *)
(* then either several heston_model_sim calls at different spots, or one   *)
(* calculate_greeks call.                                                  *)
(*                                                                         *)
(* Numbers.  A float is modelled as a fixed-point integer counting units   *)
(* of 1/ONE; every operation rounds its exact result to the nearest unit,  *)
(* as IEEE-754 rounds to the nearest double.  NaN is a value of its own    *)
(* and propagates through every operation the way numpy propagates it.     *)
(* PosInf / NegInf arise only from a division by zero in calculate_greeks, *)
(* whose quotients are returned and never used as operands.                *)
(*                                                                         *)
(* Random generator.  numpy's process-wide generator is modelled by its    *)
(* stream position rng (how many normals the process has drawn so far);    *)
(* the process is unseeded, so the value found at a position is any        *)
(* element of Draws.                                                       *)
(***************************************************************************)
EXTENDS Integers, Sequences, FiniteSets, TLC

\* ------------------------------------------------------------- bounds
\* fixed-point resolution: units per 1.0
ONE == 1000
\* number of series terms np.exp is evaluated to
ExpTerms == 8
\* N = 20000 in calculate_greeks, scaled down
N == 1
\* num_steps = 100 (the default of heston_model_sim), scaled down
NumSteps == 2

\* ------------------------------------------------------------- program constants
\* the test makes two heston_model_sim calls in a row (price_low, price_high)
TestCalls == 2

\* ------------------------------------------------------------- floats
NaN == 2000000000
PosInf == 2000000001
NegInf == 2000000002

IsNum(x) == x \notin {NaN, PosInf, NegInf}

\* a / b for b > 0, rounded to the nearest integer
RDiv(a, b) == (2 * a + b) \div (2 * b)

\* the float nearest to the rational n / d
Fix(n, d) == RDiv(n * ONE, d)

Neg(a) == IF a = NaN THEN NaN ELSE 0 - a

Add(a, b) == IF a = NaN \/ b = NaN THEN NaN ELSE a + b

Sub(a, b) == IF a = NaN \/ b = NaN THEN NaN ELSE a - b

Mul(a, b) == IF a = NaN \/ b = NaN THEN NaN ELSE RDiv(a * b, ONE)

\* numpy float division: x/0 is +-inf, 0/0 is nan (a RuntimeWarning, no exception)
Div(a, b) ==
    IF a = NaN \/ b = NaN THEN NaN
    ELSE IF b = 0 THEN (IF a = 0 THEN NaN ELSE IF a > 0 THEN PosInf ELSE NegInf)
    ELSE IF b < 0 THEN RDiv((0 - a) * ONE, 0 - b)
    ELSE RDiv(a * ONE, b)

\* np.maximum propagates nan
Maximum(a, b) == IF a = NaN \/ b = NaN THEN NaN ELSE IF a >= b THEN a ELSE b

RECURSIVE ISqrt(_, _, _)
\* the largest s in lo..hi with s * s <= n   (lo * lo <= n < (hi + 1) * (hi + 1))
ISqrt(n, lo, hi) ==
    IF lo >= hi THEN lo
    ELSE LET mid == (lo + hi + 1) \div 2
         IN  IF mid * mid <= n THEN ISqrt(n, mid, hi) ELSE ISqrt(n, lo, mid - 1)

\* np.sqrt: nan for a negative argument (a RuntimeWarning, no exception)
Sqrt(x) == IF x = NaN \/ x < 0 THEN NaN ELSE ISqrt(x * ONE, 0, 46340)

RECURSIVE ExpSeries(_, _, _, _)
\* sum of the terms x^j / j! for j = k-1 .. ExpTerms, term being x^(k-1)/(k-1)!
ExpSeries(x, k, term, acc) ==
    IF k > ExpTerms THEN acc + term
    ELSE ExpSeries(x, k + 1, RDiv(term * x, k * ONE), acc + term)

\* np.exp: exp(0) = 1 exactly, exp(-x) = 1 / exp(x)
Exp(x) ==
    IF x = NaN THEN NaN
    ELSE IF x >= 0 THEN ExpSeries(x, 1, ONE, 0)
    ELSE RDiv(ONE * ONE, ExpSeries(0 - x, 1, ONE, 0))

\* float(n) of an integer count
FromInt(n) == n * ONE

RECURSIVE SumTo(_, _)
\* np.sum of the first n entries of a vector
SumTo(f, n) == IF n = 0 THEN 0 ELSE Add(SumTo(f, n - 1), f[n])

\* np.mean: the sum divided by the length; 0/0 = nan for an empty vector
Mean(f, n) == Div(SumTo(f, n), FromInt(n))

\* ------------------------------------------------------------- inputs
\* the standard-normal values a draw can produce
Draws == {0 - ONE, ONE}

\* the params dict of src/tests/test_simulation.py
Base ==
    [v0 |-> Fix(4, 100), rho |-> 0 - Fix(1, 2), kappa |-> Fix(2, 1),
     theta |-> Fix(4, 100), sigma |-> Fix(3, 10), T |-> Fix(1, 1),
     r |-> Fix(5, 100), strike |-> Fix(100, 1), option_type |-> "call",
     num_paths |-> 1]

\* dT = 1/365.0
dT == Fix(1, 365)

\* other values of one field of the dict, the out-of-range ones included
Alt ==
    [v0 |-> {0 - Fix(1, 100)},
     rho |-> {Fix(3, 2)},
     kappa |-> {0},
     theta |-> {Fix(9, 100)},
     sigma |-> {Fix(5, 10)},
     r |-> {0 - Fix(5, 100)},
     num_paths |-> {0}]

Singles == {Base} \cup UNION {{[Base EXCEPT ![f] = x] : x \in Alt[f]} : f \in DOMAIN Alt}

\* maturities: negative, zero, one day, one year
Maturities == {0 - Fix(1, 1), 0, dT, Fix(1, 1)}

OptionTypes == {"call", "put"}

\* the dicts the engine is called with
Inputs ==
    {[p EXCEPT !.T = tt, !.option_type = ty] :
        p \in Singles, tt \in Maturities, ty \in OptionTypes}

\* the dicts of the tests: these are priced twice in a row, the others once
TestInputs == {[Base EXCEPT !.option_type = ty] : ty \in OptionTypes}

\* the dicts calculate_greeks is called with
GreekInputs ==
    {[Base EXCEPT !.T = tt, !.option_type = ty] : tt \in Maturities, ty \in OptionTypes}

\* spots of the heston_model_sim calls
Spots == {0, Fix(90, 1), Fix(110, 1)}

\* spots of the calculate_greeks call
GreekSpots == {0, Fix(100, 1)}

\* ------------------------------------------------------------- state
VARIABLES
    params,     \* the caller's params dict
    pc,         \* where the process is
    hist,       \* the caller's completed heston_model_sim calls
    rng,        \* stream position of numpy's process-wide generator
    a,          \* heston_model_sim: its arguments
    dt, Z1, Z2, S, v, t, payoff,   \* heston_model_sim: its locals
    drawAt,     \* stream position at which this call's draws began
    lastCall,   \* the call that returned last: arguments, draws, returned price
    gS0,        \* calculate_greeks: its S0 argument
    dS, P, P_up, P_down, P_time_decay, delta, gamma, theta_val,  \* its locals
    leg,        \* which heston_model_sim call of calculate_greeks is running
    legs,       \* the heston_model_sim calls calculate_greeks has made
    result      \* the dict calculate_greeks returned

heston == <<a, dt, Z1, Z2, S, v, t, payoff, drawAt>>

greeks == <<gS0, dS, P, P_up, P_down, P_time_decay, delta, gamma, theta_val, leg, legs>>

vars == <<params, pc, hist, rng, heston, lastCall, greeks, result>>

NoArgs ==
    [S0 |-> 0, v0 |-> 0, rho |-> 0, kappa |-> 0, theta |-> 0, sigma |-> 0,
     T |-> 0, r |-> 0, strike |-> 0, option_type |-> "call",
     num_paths |-> 0, num_steps |-> 0]

NoCall == [args |-> NoArgs, price |-> 0, Z1 |-> <<>>, Z2 |-> <<>>, drawAt |-> 0]

NoResult == [price |-> 0, delta |-> 0, gamma |-> 0, theta |-> 0]

\* the argument list of heston_model_sim(s0, v0, ..., T=tt, ..., num_paths=np),
\* num_steps left to its default
Args(s0, p, tt, np) ==
    [S0 |-> s0, v0 |-> p.v0, rho |-> p.rho, kappa |-> p.kappa, theta |-> p.theta,
     sigma |-> p.sigma, T |-> tt, r |-> p.r, strike |-> p.strike,
     option_type |-> p.option_type, num_paths |-> np, num_steps |-> NumSteps]

Paths == 1 .. a.num_paths

Init ==
    /\ params \in Inputs
    /\ pc = "idle"
    /\ hist = <<>>
    /\ rng = 0
    /\ a = NoArgs
    /\ dt = 0 /\ Z1 = <<>> /\ Z2 = <<>> /\ S = <<>> /\ v = <<>> /\ t = 0
    /\ payoff = <<>>
    /\ drawAt = 0
    /\ lastCall = NoCall
    /\ gS0 = 0 /\ dS = 0 /\ P = 0 /\ P_up = 0 /\ P_down = 0 /\ P_time_decay = 0
    /\ delta = 0 /\ gamma = 0 /\ theta_val = 0
    /\ leg = "none"
    /\ legs = <<>>
    /\ result = NoResult

\* ------------------------------------------------------------- heston_model_sim
\* Z2 = rho * Z1 + np.sqrt(1 - rho**2) * np.random.normal(...)
Correlate(rho, z1, z2raw) == Add(Mul(rho, z1), Mul(Sqrt(Sub(ONE, Mul(rho, rho))), z2raw))

\* the number of normals one call draws: two (num_paths, num_steps) matrices
DrawCount(args) == 2 * args.num_paths * args.num_steps

\* mutant: the generator is left where it was
AdvanceNot(pos, n) == pos

\* the generator after it has produced n more normals
Advance(pos, n) == pos + n

\* lines 25-30: dt, Z1, Z2
Draw ==
    /\ pc = "draw"
    /\ dt' = Div(a.T, FromInt(a.num_steps))
    /\ \E z1 \in [Paths -> [1 .. a.num_steps -> Draws]],
          z2raw \in [Paths -> [1 .. a.num_steps -> Draws]] :
            /\ Z1' = z1
            /\ Z2' = [i \in Paths |-> [k \in 1 .. a.num_steps |->
                         Correlate(a.rho, z1[i][k], z2raw[i][k])]]
    /\ drawAt' = rng
    /\ rng' = Advance(rng, DrawCount(a))
    /\ pc' = "alloc"
    /\ UNCHANGED <<params, hist, a, S, v, t, payoff, lastCall, greeks, result>>

\* lines 32-36: S, v allocated, column 0 set
Alloc ==
    /\ pc = "alloc"
    /\ S' = [i \in Paths |-> [k \in 0 .. a.num_steps |-> IF k = 0 THEN a.S0 ELSE 0]]
    /\ v' = [i \in Paths |-> [k \in 0 .. a.num_steps |-> IF k = 0 THEN a.v0 ELSE 0]]
    /\ t' = 0
    /\ pc' = "loop"
    /\ UNCHANGED <<params, hist, rng, a, dt, Z1, Z2, payoff, drawAt, lastCall,
                   greeks, result>>

\* mutant: reflection, abs(v), in place of the floor
FloorReflect(vi) == IF vi = NaN THEN NaN ELSE IF vi < 0 THEN 0 - vi ELSE vi

\* line 42
Floor(vi) == Maximum(vi, 0)

\* line 45: S[:, t+1]
StepPrice(Si, vt, z1, r, h) ==
    Mul(Si, Exp(Add(Mul(Sub(r, Mul(Fix(1, 2), vt)), h),
                    Mul(Mul(Sqrt(vt), Sqrt(h)), z1))))

\* line 46: v[:, t+1]
StepVariance(vi, vt, z2, kappa, theta, sigma, h) ==
    Add(Add(vi, Mul(Mul(kappa, Sub(theta, vt)), h)),
        Mul(Mul(Mul(sigma, Sqrt(vt)), Sqrt(h)), z2))

\* lines 38-46: one iteration of the time loop, all paths at once
Step ==
    /\ pc = "loop"
    /\ t < a.num_steps
    /\ S' = [i \in Paths |-> [S[i] EXCEPT ![t + 1] =
                 StepPrice(S[i][t], Floor(v[i][t]), Z1[i][t + 1], a.r, dt)]]
    /\ v' = [i \in Paths |-> [v[i] EXCEPT ![t + 1] =
                 StepVariance(v[i][t], Floor(v[i][t]), Z2[i][t + 1],
                              a.kappa, a.theta, a.sigma, dt)]]
    /\ t' = t + 1
    /\ UNCHANGED <<params, pc, hist, rng, a, dt, Z1, Z2, payoff, drawAt, lastCall,
                   greeks, result>>

\* mutant: the payoff is not floored at zero
PayoffNoFloor(ST, strike, option_type) ==
    IF option_type = "call" THEN Sub(ST, strike) ELSE Sub(strike, ST)

\* mutant: the call and put branches are exchanged
PayoffSwapped(ST, strike, option_type) ==
    IF option_type = "call" THEN Maximum(Sub(strike, ST), 0)
    ELSE Maximum(Sub(ST, strike), 0)

\* lines 55-58
PayoffOf(ST, strike, option_type) ==
    IF option_type = "call" THEN Maximum(Sub(ST, strike), 0)
    ELSE Maximum(Sub(strike, ST), 0)

\* lines 54-58: ST = S[:, -1], payoff
Payoff ==
    /\ pc = "loop"
    /\ t = a.num_steps
    /\ payoff' = [i \in Paths |-> PayoffOf(S[i][a.num_steps], a.strike, a.option_type)]
    /\ pc' = "discount"
    /\ UNCHANGED <<params, hist, rng, a, dt, Z1, Z2, S, v, t, drawAt, lastCall,
                   greeks, result>>

\* mutant: the maturity is left out of the discount factor
DiscountFactorNoT(r, T) == Exp(Neg(r))

\* line 61: np.exp(-r * T)
DiscountFactor(r, T) == Exp(Mul(Neg(r), T))

\* line 61: option_price
OptionPrice(pay, args) == Mul(DiscountFactor(args.r, args.T), Mean(pay, args.num_paths))

\* lines 61-63: option_price computed and returned; the frame is gone
Return ==
    /\ pc = "discount"
    /\ lastCall' = [args |-> a, price |-> OptionPrice(payoff, a),
                    Z1 |-> Z1, Z2 |-> Z2, drawAt |-> drawAt]
    /\ pc' = IF leg = "none" THEN "test_recv" ELSE "greeks_recv"
    /\ a' = NoArgs
    /\ dt' = 0 /\ Z1' = <<>> /\ Z2' = <<>> /\ S' = <<>> /\ v' = <<>> /\ t' = 0
    /\ payoff' = <<>>
    /\ drawAt' = 0
    /\ UNCHANGED <<params, hist, rng, greeks, result>>

\* ------------------------------------------------------------- the test's calls
\* test_simulation.py lines 13-14, 25-26: heston_model_sim(S0=s0, **params)
CallPrice ==
    /\ pc = "idle"
    /\ Len(hist) < TestCalls
    /\ hist # <<>> => params \in TestInputs
    /\ result = NoResult
    /\ \E s0 \in Spots : a' = Args(s0, params, params.T, params.num_paths)
    /\ pc' = "draw"
    /\ UNCHANGED <<params, hist, rng, dt, Z1, Z2, S, v, t, payoff, drawAt, lastCall,
                   greeks, result>>

\* price_low = ..., price_high = ...
RecvPrice ==
    /\ pc = "test_recv"
    /\ hist' = Append(hist, lastCall)
    /\ lastCall' = NoCall
    /\ pc' = "idle"
    /\ UNCHANGED <<params, rng, heston, greeks, result>>

\* ------------------------------------------------------------- calculate_greeks
\* what calculate_greeks knows of a call it made
LegRecord(c) == [args |-> c.args, price |-> c.price, drawAt |-> c.drawAt]

\* line 70
SpotBump(s0) == Mul(s0, Fix(1, 100))

\* test_simulation.py line 33, agents.py line 81: calculate_greeks(S0=s0, ...);
\* lines 70-80: dS, dT, N and the base call
CallGreeks ==
    /\ pc = "idle"
    /\ params \in GreekInputs
    /\ hist = <<>>
    /\ \E s0 \in GreekSpots :
         /\ gS0' = s0
         /\ dS' = SpotBump(s0)
         /\ a' = Args(s0, params, params.T, N)
    /\ leg' = "base"
    /\ pc' = "draw"
    /\ UNCHANGED <<params, hist, rng, dt, Z1, Z2, S, v, t, payoff, drawAt, lastCall,
                   P, P_up, P_down, P_time_decay, delta, gamma, theta_val, legs,
                   result>>

\* line 80 assigns P, line 83 calls for P_up
RecvBase ==
    /\ pc = "greeks_recv"
    /\ leg = "base"
    /\ P' = lastCall.price
    /\ legs' = Append(legs, LegRecord(lastCall))
    /\ lastCall' = NoCall
    /\ a' = Args(Add(gS0, dS), params, params.T, N)
    /\ leg' = "up"
    /\ pc' = "draw"
    /\ UNCHANGED <<params, hist, rng, dt, Z1, Z2, S, v, t, payoff, drawAt,
                   gS0, dS, P_up, P_down, P_time_decay, delta, gamma, theta_val,
                   result>>

\* line 83 assigns P_up, line 84 calls for P_down
RecvUp ==
    /\ pc = "greeks_recv"
    /\ leg = "up"
    /\ P_up' = lastCall.price
    /\ legs' = Append(legs, LegRecord(lastCall))
    /\ lastCall' = NoCall
    /\ a' = Args(Sub(gS0, dS), params, params.T, N)
    /\ leg' = "down"
    /\ pc' = "draw"
    /\ UNCHANGED <<params, hist, rng, dt, Z1, Z2, S, v, t, payoff, drawAt,
                   gS0, dS, P, P_down, P_time_decay, delta, gamma, theta_val,
                   result>>

\* mutant: the difference is divided by dS, not by 2 * dS
DeltaOneSided(pu, pd, h) == Div(Sub(pu, pd), h)

\* line 86
Delta(pu, pd, h) == Div(Sub(pu, pd), Mul(FromInt(2), h))

\* line 87
Gamma(pu, p, pd, h) == Div(Add(Sub(pu, Mul(FromInt(2), p)), pd), Mul(h, h))

\* line 84 assigns P_down; lines 86-87: delta, gamma
RecvDown ==
    /\ pc = "greeks_recv"
    /\ leg = "down"
    /\ P_down' = lastCall.price
    /\ legs' = Append(legs, LegRecord(lastCall))
    /\ lastCall' = NoCall
    /\ delta' = Delta(P_up, lastCall.price, dS)
    /\ gamma' = Gamma(P_up, P, lastCall.price, dS)
    /\ leg' = "none"
    /\ pc' = "theta"
    /\ UNCHANGED <<params, hist, rng, heston, gS0, dS, P, P_up,
                   P_time_decay, theta_val, result>>

\* mutant: the comparison is not strict
HasTimeLegAtDT(T) == T >= dT

\* line 92
HasTimeLeg(T) == T > dT

\* lines 92-93: T > dT, the call for P_time_decay
CallTimeDecay ==
    /\ pc = "theta"
    /\ HasTimeLeg(params.T)
    /\ a' = Args(gS0, params, Sub(params.T, dT), N)
    /\ leg' = "time"
    /\ pc' = "draw"
    /\ UNCHANGED <<params, hist, rng, dt, Z1, Z2, S, v, t, payoff, drawAt, lastCall,
                   gS0, dS, P, P_up, P_down, P_time_decay, delta, gamma, theta_val,
                   legs, result>>

\* line 94
Theta(ptd, p) == Div(Sub(ptd, p), dT)

\* line 93 assigns P_time_decay; line 94: theta_val
RecvTimeDecay ==
    /\ pc = "greeks_recv"
    /\ leg = "time"
    /\ P_time_decay' = lastCall.price
    /\ legs' = Append(legs, LegRecord(lastCall))
    /\ lastCall' = NoCall
    /\ theta_val' = Theta(lastCall.price, P)
    /\ leg' = "none"
    /\ pc' = "greeks_ret"
    /\ UNCHANGED <<params, hist, rng, heston, gS0, dS, P, P_up, P_down,
                   delta, gamma, result>>

\* lines 95-96: theta_val = 0
Expiring ==
    /\ pc = "theta"
    /\ ~HasTimeLeg(params.T)
    /\ theta_val' = 0
    /\ pc' = "greeks_ret"
    /\ UNCHANGED <<params, hist, rng, heston, lastCall, gS0, dS, P, P_up, P_down,
                   P_time_decay, delta, gamma, leg, legs, result>>

\* lines 98-103: the returned dict
GreeksReturn ==
    /\ pc = "greeks_ret"
    /\ result' = [price |-> P, delta |-> delta, gamma |-> gamma, theta |-> theta_val]
    /\ pc' = "greeks_done"
    /\ UNCHANGED <<params, hist, rng, heston, lastCall, greeks>>

Next ==
    \/ CallPrice
    \/ Draw
    \/ Alloc
    \/ Step
    \/ Payoff
    \/ Return
    \/ RecvPrice
    \/ CallGreeks
    \/ RecvBase
    \/ RecvUp
    \/ RecvDown
    \/ CallTimeDecay
    \/ RecvTimeDecay
    \/ Expiring
    \/ GreeksReturn

Spec == Init /\ [][Next]_vars

\* the calls of the tests alone
NextPrice ==
    \/ CallPrice
    \/ Draw
    \/ Alloc
    \/ Step
    \/ Payoff
    \/ Return
    \/ RecvPrice

SpecPrice == Init /\ [][NextPrice]_vars

\* ------------------------------------------------------------- properties
\* a heston_model_sim call has just returned
Returned == pc \in {"test_recv", "greeks_recv"}

\* a heston_model_sim call has drawn its normals and is simulating
Simulating == pc \in {"alloc", "loop", "discount"}

RhoInRange(args) == 0 - ONE <= args.rho /\ args.rho <= ONE

\* the inputs the documentation wants rejected
InvalidInput(args) ==
    ~RhoInRange(args) \/ args.v0 < 0 \/ args.num_paths < 1 \/ args.S0 = 0

\* C1: a call with rho outside [-1,1], v0 < 0, num_paths = 0 or S0 = 0 is rejected
\* before any normal is drawn: it never draws, never simulates, returns no price.
C1_InvalidInputRejected ==
    /\ (Simulating /\ InvalidInput(a)) => FALSE
    /\ (Returned /\ InvalidInput(lastCall.args)) => FALSE

Intrinsic(args) ==
    IF args.option_type = "call"
    THEN (IF args.S0 - args.strike >= 0 THEN args.S0 - args.strike ELSE 0)
    ELSE (IF args.strike - args.S0 >= 0 THEN args.strike - args.S0 ELSE 0)

\* C2: with T = 0, num_paths >= 1 and rho in [-1,1], every step leaves every
\* path's price at S0 and the returned price is exactly max(S0 - K, 0) for a call,
\* max(K - S0, 0) for a put, whatever the draws and whatever r, v0, kappa, sigma.
C2_ZeroMaturityIntrinsic ==
    /\ (Simulating /\ pc # "alloc" /\ a.T = 0 /\ RhoInRange(a)) =>
           \A i \in Paths : \A k \in 0 .. t : S[i][k] = a.S0
    /\ (Returned /\ lastCall.args.T = 0 /\ lastCall.args.num_paths >= 1
            /\ RhoInRange(lastCall.args)) =>
           lastCall.price = Intrinsic(lastCall.args)

C2_Witness ==
    /\ pc = "test_recv"
    /\ lastCall.args.T = 0
    /\ lastCall.args.S0 = Fix(110, 1)
    /\ lastCall.args.option_type = "call"
    /\ lastCall.args.r = Fix(5, 100)
    /\ lastCall.Z1[1][1] # lastCall.Z1[1][2]
    /\ lastCall.price = Fix(10, 1)

GreeksDone == pc = "greeks_done"

\* the arguments of the base call of calculate_greeks
BaseArgs == Args(gS0, params, params.T, N)

\* C3: dS = 0.01 * S0; the three calls are made at S0, S0 + dS, S0 - dS with
\* every other argument the same; delta = (P_up - P_down) / (2 dS), gamma =
\* (P_up - 2 P + P_down) / dS^2 of the prices they returned; "price" is P.
C3_DeltaGammaCentral ==
    GreeksDone =>
        /\ dS = Mul(gS0, Fix(1, 100))
        /\ Len(legs) >= 3
        /\ legs[1].args = BaseArgs
        /\ legs[2].args = [BaseArgs EXCEPT !.S0 = gS0 + dS]
        /\ legs[3].args = [BaseArgs EXCEPT !.S0 = gS0 - dS]
        /\ result.delta = Div(Sub(legs[2].price, legs[3].price), dS + dS)
        /\ result.gamma =
               Div(Add(Sub(legs[2].price, Add(legs[1].price, legs[1].price)),
                       legs[3].price),
                   Mul(dS, dS))
        /\ result.price = legs[1].price

C3_Witness ==
    /\ GreeksDone
    /\ gS0 = Fix(100, 1)
    /\ dS = Fix(1, 1)
    /\ IsNum(result.delta) /\ result.delta > 0
    /\ IsNum(result.gamma) /\ result.gamma # 0
    /\ legs[2].price # legs[1].price

\* C4: theta is exactly 0 when T <= dT; when T > dT a fourth call is made at
\* maturity T - dT, every other argument as in the base call, and theta =
\* (P_time_decay - P) / dT.
C4_ThetaTruncation ==
    GreeksDone =>
        /\ params.T <= dT => result.theta = 0
        /\ params.T > dT =>
               /\ Len(legs) >= 4
               /\ legs[4].args = [BaseArgs EXCEPT !.T = params.T - dT]
               /\ result.theta = Div(Sub(legs[4].price, legs[1].price), dT)

C4_Witness ==
    /\ GreeksDone
    /\ params.T = dT
    /\ legs[1].price > 0
    /\ result.theta = 0

\* the stream positions a call's draws occupy are from .. to - 1
DrawsFrom(c) == c.drawAt

DrawsTo(c) == c.drawAt + DrawCount(c.args)

\* no two calls of calculate_greeks share a stream position
FreshDraws ==
    \A i \in 1 .. Len(legs) : \A j \in 1 .. Len(legs) :
        i < j => DrawsTo(legs[i]) <= DrawsFrom(legs[j])

\* the dict is built of the prices the calls returned
AssembledFromLegs ==
    /\ P = legs[1].price /\ P_up = legs[2].price /\ P_down = legs[3].price
    /\ result.price = P
    /\ Len(legs) = 4 => P_time_decay = legs[4].price

\* C5 as stated: every calculate_greeks call makes exactly four simulation calls,
\* each with draws of its own
C5_AlwaysFourLegs ==
    GreeksDone => (Len(legs) = 4 /\ FreshDraws /\ AssembledFromLegs)

\* C5 amended: four simulation calls when T > dT, three when T <= dT (the
\* shortened-maturity call is skipped); in either case each call draws
\* 2 * num_paths * num_steps normals of its own, at stream positions no other
\* call uses, and the dict is built of the prices those calls returned.
C5_LegsFreshDraws ==
    /\ GreeksDone =>
           /\ Len(legs) = (IF params.T > dT THEN 4 ELSE 3)
           /\ AssembledFromLegs
    /\ FreshDraws
    /\ \A i \in 1 .. Len(legs) : DrawCount(legs[i].args) = 2 * N * NumSteps

C5_Witness ==
    /\ GreeksDone
    /\ Len(legs) = 4
    /\ DrawsFrom(legs[4]) = 3 * DrawCount(legs[1].args)
    /\ rng = 4 * DrawCount(legs[1].args)

\* C6: two heston_model_sim calls with identical arguments (the process has one
\* generator; there is no seed argument to tell them apart) return the same price
C6_SameArgsSamePrice ==
    (Len(hist) = TestCalls /\ hist[1].args = hist[2].args) =>
        hist[1].price = hist[2].price

\* C7: no call reads generator state that an earlier call wrote: every call
\* finds the generator as it was when the process started
C7_NoCrossCallState == pc = "draw" => rng = 0

\* C8: with T <= 0 (negative T included) and every other argument in range,
\* the call returns, every path's terminal price is exactly S0, and neither the
\* price state nor the returned price is NaN or infinite
C8_NonPositiveMaturityNoOp ==
    /\ (pc = "discount" /\ a.T <= 0 /\ ~InvalidInput(a)) =>
           \A i \in Paths : IsNum(S[i][a.num_steps]) /\ S[i][a.num_steps] = a.S0
    /\ (Returned /\ lastCall.args.T <= 0 /\ ~InvalidInput(lastCall.args)) =>
           IsNum(lastCall.price)

\* the inputs for which the price is claimed non-negative
PricedInput(args) == args.num_paths >= 1 /\ args.T >= 0 /\ RhoInRange(args)

\* C9: for num_paths >= 1, T >= 0, rho in [-1,1] and any r the returned price is
\* a number >= 0, call or put, whatever the draws; so is the "price" of the dict
\* calculate_greeks returns.
C9_PriceNonNegative ==
    /\ (Returned /\ PricedInput(lastCall.args)) =>
           (IsNum(lastCall.price) /\ lastCall.price >= 0)
    /\ (GreeksDone /\ PricedInput(BaseArgs)) =>
           (IsNum(result.price) /\ result.price >= 0)

C9_Witness ==
    /\ pc = "test_recv"
    /\ PricedInput(lastCall.args)
    /\ lastCall.args.r < 0
    /\ lastCall.args.option_type = "put"
    /\ lastCall.price > 0

\* the two calls of a monotonicity test: the test's dict, spots 90 and 110
MonotonicityPair(lo, hi) ==
    /\ Len(hist) = TestCalls
    /\ lo \in 1 .. TestCalls /\ hi \in 1 .. TestCalls
    /\ hist[lo].args.S0 = Fix(90, 1)
    /\ hist[hi].args.S0 = Fix(110, 1)

SameDraws(c, d) == c.Z1 = d.Z1 /\ c.Z2 = d.Z2

AtmCallDone ==
    /\ GreeksDone
    /\ gS0 = Fix(100, 1)
    /\ params = Base

\* C11: for the at-the-money call (S0 = strike = 100, T = 1, the test's dict)
\* calculate_greeks returns delta in [0.3, 0.7], gamma > 0 and theta < 0,
\* whatever the independently resimulated legs draw
C11_AtmGreeksSanity ==
    AtmCallDone =>
        /\ IsNum(result.delta)
        /\ Fix(3, 10) <= result.delta /\ result.delta <= Fix(7, 10)
        /\ IsNum(result.gamma) /\ result.gamma > 0
        /\ IsNum(result.theta) /\ result.theta < 0

\* the time loop is running or has finished
InLoop == pc \in {"loop", "discount"}

\* max(x, 0), NaN kept
Floored(x) == IF x = NaN THEN NaN ELSE IF x < 0 THEN 0 ELSE x

\* step k -> k + 1 of path i took its coefficients from the floored variance
\* and added the variance increment to the stored, unfloored v[i][k]
StepFromFloored(i, k) ==
    LET vp == Floored(v[i][k])
    IN  /\ vp = NaN \/ vp >= 0
        /\ S[i][k + 1] =
               Mul(S[i][k],
                   Exp(Add(Mul(Sub(a.r, Mul(Fix(1, 2), vp)), dt),
                           Mul(Mul(Sqrt(vp), Sqrt(dt)), Z1[i][k + 1]))))
        /\ v[i][k + 1] =
               Add(Add(v[i][k], Mul(Mul(a.kappa, Sub(a.theta, vp)), dt)),
                   Mul(Mul(Mul(a.sigma, Sqrt(vp)), Sqrt(dt)), Z2[i][k + 1]))

\* every path starts at (S0, v0) and every step taken so far is StepFromFloored
PathsFromFloored ==
    InLoop =>
        \A i \in Paths :
            /\ S[i][0] = a.S0
            /\ v[i][0] = a.v0
            /\ \A k \in 0 .. t - 1 : StepFromFloored(i, k)

\* what is stored is never written again: no floor is applied to it afterwards
StoredKept ==
    (InLoop /\ pc' \in {"loop", "discount"}) =>
        \A i \in Paths : \A k \in 0 .. t : v'[i][k] = v[i][k] /\ S'[i][k] = S[i][k]

====
